---- MODULE Spec2Model ----
(***************************************************************************)
(* A model of mcp_simple_chatbot's conversation engine: ChatSession        *)
(* (core/chat_session.py), CommandHandler (core/command_handler.py) and    *)
(* LLMClient (clients/llm_client.py).                                      *)
(*                                                                         *)
(* Texts are sequences of tokens (strings).  A token is a whitespace run,  *)
(* a marker such as <|channel|>, or a word; the tokenisation is canonical  *)
(* (no two adjacent word tokens), so equality of token sequences is        *)
(* equality of the strings they spell.  An Optional[...] value is a        *)
(* sequence of length 0 (None) or 1.                                       *)
(*                                                                         *)
(* asyncio is cooperative: a coroutine runs until it awaits something that *)
(* is not ready.  The consumer (start) is suspended only in queue.get() on *)
(* an empty queue, in "await input_monitor" and in asyncio.gather; the     *)
(* tool tasks and the input monitor take steps only then.                  *)
(***************************************************************************)
EXTENDS Integers, Sequences, FiniteSets, TLC

\* ------------------------------------------------------------------ bounds
MaxInputs == 2      \* lines the input monitor reads before it stops reading
MaxTools == 2       \* tool calls dispatched in one session
MaxBlocks == 3      \* channel blocks in a raw text handed to the parser alone

\* ------------------------------------------------------------------- texts
None == <<>>
Some(v) == <<v>>

WS == {" "}

RECURSIVE LStrip(_)
LStrip(t) == IF t # <<>> /\ Head(t) \in WS THEN LStrip(Tail(t)) ELSE t

RECURSIVE RStrip(_)
RStrip(t) ==
  IF t # <<>> /\ t[Len(t)] \in WS THEN RStrip(SubSeq(t, 1, Len(t) - 1)) ELSE t

\* str.strip()
Strip(t) == RStrip(LStrip(t))

LowerTok(k) ==
  CASE k = "QUIT" -> "quit"
    [] k = "Quit" -> "quit"
    [] k = "EXIT" -> "exit"
    [] k = "HELP" -> "help"
    [] k = "Debug" -> "debug"
    [] k = "FOO" -> "foo"
    [] k = "HISTORY" -> "history"
    [] OTHER -> k

\* str.lower()
Lower(t) == [i \in 1..Len(t) |-> LowerTok(t[i])]

\* str.split(): the maximal runs of non-whitespace tokens
RECURSIVE Split(_)
Split(t) ==
  LET s == LStrip(t)
      n == IF \E i \in 1..Len(s) : s[i] \in WS
           THEN (CHOOSE i \in 1..Len(s) :
                   s[i] \in WS /\ \A j \in 1..(i - 1) : s[j] \notin WS) - 1
           ELSE Len(s)
  IN IF s = <<>> THEN <<>>
     ELSE <<SubSeq(s, 1, n)>> \o Split(SubSeq(s, n + 1, Len(s)))

\* "".join(tokens): the string a token sequence spells
RECURSIVE Join(_)
Join(t) == IF t = <<>> THEN "" ELSE Head(t) \o Join(Tail(t))

\* ------------------------------------------------- the model's wire format
CH == "<|channel|>"
MSG == "<|message|>"
START == "<|start|>"

\* the lookahead (?=<\||$): a body ends before the next token opening "<|"
IsMarker(k) == k \in {CH, MSG, START, "<|end|>", "<|"}

\* the JSON documents the modelled responses carry, and json.loads of each
\* (the value is named by its Python repr, as the tool-call summary prints it)
JLondon == "{\"location\": \"London\"}"
JPath == "{\"path\":\"/projects\"}"
ValidJson == {JLondon, JPath}

JsonLoads(k) ==
  CASE k = JLondon -> "{'location': 'London'}"
    [] k = JPath -> "{'path': '/projects'}"

\* json.loads(body.strip()) succeeds
JsonOk(body) == Len(Strip(body)) = 1 /\ Strip(body)[1] \in ValidJson

MalformedMessage ==
  <<"Error: LLM provided malformed tool arguments. ",
    "Please try rephrasing your request.">>

\* (.*?)(?=<\||$) from position p: the tokens up to the next marker
BodyFrom(raw, p) ==
  LET stops == {j \in p..Len(raw) : IsMarker(raw[j])}
      e == IF stops = {} THEN Len(raw) + 1
           ELSE CHOOSE j \in stops : \A k \in stops : j <= k
  IN SubSeq(raw, p, e - 1)

\* re.search(r"<\|channel\|>NAME<\|message\|>(.*?)(?=<\||$)", raw, re.DOTALL)
ChannelMatch(raw, name) ==
  LET starts == {i \in 1..(Len(raw) - 2) :
                   raw[i] = CH /\ raw[i + 1] = name /\ raw[i + 2] = MSG}
  IN IF starts = {} THEN None
     ELSE LET i == CHOOSE a \in starts : \A b \in starts : a <= b
          IN Some(BodyFrom(raw, i + 3))

\* a tool-call pattern without the optional (?:functions\.)? prefix
NameStartNoPrefix(raw, i) == i + 3

\* where group 1 of the tool-call pattern starts for a match starting at i
NameStart(raw, i) ==
  IF i + 3 <= Len(raw) /\ raw[i + 3] = "functions." THEN i + 4 ELSE i + 3

\* the positions of "json<|message|>" that can close a match starting at i
JsonAt(raw, i) ==
  {k \in NameStart(raw, i)..(Len(raw) - 1) : raw[k] = "json" /\ raw[k + 1] = MSG}

\* re.search(r"<\|channel\|>commentary to=(?:functions\.)?(.*?) ?json<\|message\|>"
\*           r"(.*?)(?=<\||$)", raw, re.DOTALL): groups 1 and 2 of the leftmost match
ToolCallMatch(raw) ==
  LET starts == {i \in 1..(Len(raw) - 2) :
                   /\ raw[i] = CH /\ raw[i + 1] = "commentary" /\ raw[i + 2] = " to="
                   /\ JsonAt(raw, i) # {}}
  IN IF starts = {} THEN None
     ELSE LET i == CHOOSE a \in starts : \A b \in starts : a <= b
              s == NameStart(raw, i)
              k == CHOOSE a \in JsonAt(raw, i) : \A b \in JsonAt(raw, i) : a <= b
              e == IF k - 1 >= s /\ raw[k - 1] = " " THEN k - 2 ELSE k - 1
          IN Some([name |-> SubSeq(raw, s, e), body |-> BodyFrom(raw, k + 2)])

\* ChatSession._parse_llm_response, with the final channel applied last
ParseWith(raw, finalMatch) ==
  LET analysis == ChannelMatch(raw, "analysis")
      tc == ToolCallMatch(raw)
      thinking == IF analysis # None THEN Some(Strip(analysis[1])) ELSE None
      tool_call == IF tc # None /\ JsonOk(tc[1].body)
                   THEN Some([tool |-> Join(Strip(tc[1].name)),
                              args |-> JsonLoads(Strip(tc[1].body)[1])])
                   ELSE None
      message1 == IF tc # None /\ ~JsonOk(tc[1].body)
                  THEN Some(MalformedMessage) ELSE None
      message == IF finalMatch # None THEN Some(Strip(finalMatch[1])) ELSE message1
  IN [role |-> "assistant", thinking |-> thinking, message |-> message,
      tool_call |-> tool_call, commentary |-> Some(raw)]

\* a parser that keeps the raw text only as a fallback, when it recognized
\* no channel
parse_commentary_fallback(raw) ==
  LET p == ParseWith(raw, ChannelMatch(raw, "final"))
  IN IF p.thinking = None /\ p.message = None /\ p.tool_call = None
     THEN p ELSE [p EXCEPT !.commentary = None]

parse_llm_response(raw) == ParseWith(raw, ChannelMatch(raw, "final"))

\* ------------------------------------------------------ the command handler
Commands == {<<"debug">>, <<"help">>}

\* CommandHandler.is_command
is_command(message) == Strip(message) # <<>> /\ Head(Strip(message)) = "/"

\* message.strip()[1:].split(); called only when is_command(message)
command_parts(message) == Split(Tail(Strip(message)))

HelpText ==
  <<"Available commands:", "/debug - Toggle debug logging on/off",
    "/help - Show this help message">>

\* CommandHandler.execute_command: [raised, response, debug]
execute_command(message, debug) ==
  LET parts == command_parts(message) IN
  IF parts = <<>>
  THEN [raised |-> TRUE, response |-> <<>>, debug |-> debug]   \* IndexError
  ELSE LET command_name == Lower(parts[1]) IN
       IF command_name \notin Commands
       THEN [raised |-> FALSE,
             response |-> <<"Unknown command: /", Join(command_name),
                            ". Type /help for available commands.">>,
             debug |-> debug]
       ELSE IF command_name = <<"debug">>
       THEN [raised |-> FALSE,
             response |-> <<"Debug logging ",
                            IF ~debug THEN "enabled" ELSE "disabled", ".">>,
             debug |-> ~debug]
       ELSE [raised |-> FALSE, response |-> HelpText, debug |-> debug]

\* ------------------------------------------------------------ the LLM client
LLMErrorText ==
  <<"I encountered an error: Error getting LLM response: ", "connect failed",
    ". Please try again or rephrase your request.">>

\* LLMClient.get_response on one outcome of the HTTP exchange: only
\* httpx.RequestError is turned into text; an HTTP status error
\* (raise_for_status) or a body without choices[0].message.content propagates
get_response(o) ==
  IF o.net = "ok" THEN [raised |-> FALSE, text |-> o.content]
  ELSE IF o.net = "request_error" THEN [raised |-> FALSE, text |-> LLMErrorText]
  ELSE [raised |-> TRUE, text |-> <<>>]

\* --------------------------------------------------------- the configuration
\* the registered providers in registration order (ChatSession.servers is a
\* dict built from the list, so values() iterates in this order), and the
\* tools each provider lists
Servers == <<"s1", "s2">>
ServerTools ==
  [s1 |-> <<"get_weather">>, s2 |-> <<"get_weather", "list_directory">>]

SeqToSet(q) == {q[i] : i \in 1..Len(q)}

\* the lines the user may type
UserTexts ==
  { <<"What's the weather in London?">>,
    <<"quit">>, <<" ", "EXIT", " ">>,
    <<"/", "help">>, <<"/", "foo">>, <<" ", "/", "HISTORY">>,
    <<"/", "Debug", " ", "on">>, <<"/">>, <<"/", " ">> }

\* the texts the model may answer with
RawToolCall ==
  <<CH, "analysis", MSG, "Need the weather.", START, "assistant", CH, "commentary",
    " to=", "functions.", "get_weather", " ", "json", MSG, JLondon>>
RawUnknownTool ==
  <<CH, "commentary", " to=", "functions.", "no_such_tool", "json", MSG, JPath>>
RawFinal == <<CH, "final", MSG, "The weather in London is 15C.">>
RawBoth ==
  <<CH, "commentary", " to=", "functions.", "list_directory", " ", "json", MSG,
    JPath, CH, "final", MSG, " ", "Listing it now.", " ">>
RawThinking == <<CH, "analysis", MSG, "I am thinking.">>
RawMalformed ==
  <<CH, "commentary", " to=", "functions.", "get_weather", " ", "json", MSG,
    "{\"location\": ">>
RawPlain == <<"Hello there.">>

RawResponses ==
  {RawToolCall, RawUnknownTool, RawFinal, RawBoth, RawThinking, RawMalformed, RawPlain}

\* the outcomes of one HTTP exchange with the model
LLMOutcomes ==
  {[net |-> "ok", content |-> r] : r \in RawResponses}
    \cup {[net |-> k, content |-> <<>>] :
            k \in {"request_error", "status_error", "bad_body"}}

\* the outcomes of one provider.execute_tool call: a TextContent with a text
\* (possibly empty), a content that is not a TextContent, or an exception
ToolOutcomes ==
  { [kind |-> "text", text |-> <<"15C">>], [kind |-> "text", text |-> <<>>],
    [kind |-> "unsupported", text |-> <<>>], [kind |-> "raise", text |-> <<"boom">>] }

\* ------------------------------------------------------------------- values
NoResult == [kind |-> "none", text |-> <<>>, tool |-> ""]
TextResult(t) == [kind |-> "text", text |-> t, tool |-> ""]
\* {"error": str(e), "tool": tool_call.tool}
ErrorResult(e, tool) == [kind |-> "error", text |-> e, tool |-> tool]

\* str() of a text payload in place of its JSON encoding
JsonDumpsPlain(r) == r.text

\* json.dumps of a tool result
JsonDumps(r) ==
  IF r.kind = "text" THEN <<"\"">> \o r.text \o <<"\"">>
  ELSE <<"{\"error\": \"">> \o r.text \o <<"\", \"tool\": \"", r.tool, "\"}">>

\* class UserInput, class ToolResult; seq is the arrival number of the item
UserInput(content, n) ==
  [type |-> "user", content |-> content, tool_id |-> 0, tool_name |-> "",
   result |-> NoResult, seq |-> n]
ToolResult(tool_id, result, tool_name, n) ==
  [type |-> "tool_result", content |-> <<>>, tool_id |-> tool_id,
   tool_name |-> tool_name, result |-> result, seq |-> n]

Message(role, content) == [role |-> role, content |-> content]

\* the system prompt built by start_initialization from the tool schemas
SystemMessage(schemas) ==
  Message("system",
          <<"You are a helpful assistant with access to these tools:">>
            \o schemas
            \o <<"Please use only the tools that are explicitly defined above.">>)

\* the assistant entry "Calling tool 'T' with arguments: 'ARGS'" (backquotes in
\* the source, written as quotes here)
ToolCallSummary(tc) ==
  Message("assistant",
          <<"Calling tool '", tc.tool, "' with arguments: '", tc.args, "'">>)

\* the role a tool result is appended to the history with
ToolResultRole == "system"

\* ---------------------------------------------------------- one engine turn
ExitKeywords == {<<"quit">>, <<"exit">>}

\* an exit check that compares the raw line
is_exit_exact(content) == content \in ExitKeywords

\* chat_session.py 287: content.strip().lower() in ["quit", "exit"]
is_exit(content) == Lower(Strip(content)) \in ExitKeywords

\* chat_session.py 292: content.strip().lower() in ["/history"]
is_history(content) == Lower(Strip(content)) = <<"/", "history">>

\* a tool result inserted at the head of the history instead of appended
AppendInputFront(item, msgs) ==
  IF item.type = "user"
  THEN Append(msgs, Message("user", item.content))
  ELSE <<Message(ToolResultRole, JsonDumps(item.result))>> \o msgs

\* chat_session.py 306 and 311-315: the history entry of the dequeued item
AppendInput(item, msgs) ==
  IF item.type = "user"
  THEN Append(msgs, Message("user", item.content))
  ELSE Append(msgs, Message(ToolResultRole, JsonDumps(item.result)))

\* a response handler that dispatches without recording the call
HandleResponseNoSummary(msgs, parsed) ==
  IF parsed.message # None /\ parsed.message[1] # <<>>
  THEN Append(msgs, Message("assistant", parsed.message[1])) ELSE msgs

\* a response handler for which a tool call excludes the final message
HandleResponseToolOnly(msgs, parsed) ==
  IF parsed.tool_call # None
  THEN Append(msgs, ToolCallSummary(parsed.tool_call[1]))
  ELSE IF parsed.message # None /\ parsed.message[1] # <<>>
  THEN Append(msgs, Message("assistant", parsed.message[1])) ELSE msgs

\* a response handler that falls back on the raw text when the response has
\* neither a tool call nor a message
HandleResponseRawFallback(msgs, parsed) ==
  LET m2 == IF parsed.tool_call # None
            THEN Append(msgs, ToolCallSummary(parsed.tool_call[1])) ELSE msgs
  IN IF parsed.message # None /\ parsed.message[1] # <<>>
     THEN Append(m2, Message("assistant", parsed.message[1]))
     ELSE IF parsed.tool_call = None
     THEN Append(m2, Message("assistant", parsed.commentary[1])) ELSE m2

\* chat_session.py 323-330: the history after the parsed response is handled
HandleResponse(msgs, parsed) ==
  LET m2 == IF parsed.tool_call # None
            THEN Append(msgs, ToolCallSummary(parsed.tool_call[1])) ELSE msgs
  IN IF parsed.message # None /\ parsed.message[1] # <<>>
     THEN Append(m2, Message("assistant", parsed.message[1])) ELSE m2

TurnResult(ret, msgs, called, arg, raw, dispatch, response, debug) ==
  [ret |-> ret, messages |-> msgs, llm_called |-> called, llm_arg |-> arg,
   raw |-> raw, dispatch |-> dispatch, response |-> response, debug |-> debug]

\* a turn that dispatches whatever the tool-call pattern matched, without
\* regard to whether its arguments were parsed
ModelTurnUnchecked(item, msgs, o, debug) ==
  LET m1 == AppendInput(item, msgs)
      r == get_response(o)
      parsed == parse_llm_response(r.text)
      tc == ToolCallMatch(r.text)
  IN IF r.raised
     THEN TurnResult("raise", m1, TRUE, m1, None, None, None, debug)
     ELSE TurnResult("True", HandleResponse(m1, parsed), TRUE, m1, Some(r.text),
                     IF tc = None THEN None
                     ELSE Some([tool |-> Join(Strip(tc[1].name)),
                                args |-> Join(tc[1].body)]),
                     None, debug)

\* a turn that calls the model with the history as it was before the item
\* was appended
ModelTurnStaleHistory(item, msgs, o, debug) ==
  LET m1 == AppendInput(item, msgs)
      r == get_response(o)
      parsed == parse_llm_response(r.text)
  IN IF r.raised
     THEN TurnResult("raise", m1, TRUE, msgs, None, None, None, debug)
     ELSE TurnResult("True", HandleResponse(m1, parsed), TRUE, msgs, Some(r.text),
                     parsed.tool_call, None, debug)

\* chat_session.py 305-332: the item goes to the history and the model is
\* called on outcome o of the HTTP exchange
ModelTurn(item, msgs, o, debug) ==
  LET m1 == AppendInput(item, msgs)
      r == get_response(o)
      parsed == parse_llm_response(r.text)
  IN IF r.raised
     THEN TurnResult("raise", m1, TRUE, m1, None, None, None, debug)
     ELSE TurnResult("True", HandleResponse(m1, parsed), TRUE, m1, Some(r.text),
                     parsed.tool_call, None, debug)

\* ChatSession._process_conversation_turn on the dequeued item: what it
\* returns ("True", "False", or "raise" when an exception leaves it), the
\* history after it, the model call it made and the tool call it dispatches
process_conversation_turn(item, msgs, o, debug) ==
  IF item.type = "user" /\ is_exit(item.content)
  THEN TurnResult("False", msgs, FALSE, <<>>, None, None, None, debug)
  ELSE IF item.type = "user" /\ is_history(item.content)
  THEN TurnResult("True", msgs, FALSE, <<>>, None, None, None, debug)
  ELSE IF item.type = "user" /\ is_command(item.content)
  THEN LET c == execute_command(item.content, debug)
       IN IF c.raised
          THEN TurnResult("raise", msgs, FALSE, <<>>, None, None, None, debug)
          ELSE TurnResult("True", msgs, FALSE, <<>>, None, None,
                          Some(c.response), c.debug)
  ELSE ModelTurn(item, msgs, o, debug)

\* ------------------------------------------------------------ tool execution
\* a lookup without the break: the last registered provider listing the tool
FindToolServerLast(tool) ==
  LET hits == {i \in 1..Len(Servers) : tool \in SeqToSet(ServerTools[Servers[i]])}
  IN IF hits = {} THEN ""
     ELSE Servers[CHOOSE i \in hits : \A j \in hits : i >= j]

\* chat_session.py 217-223: the first registered provider listing the tool
\* ("" when none does)
FindToolServer(tool) ==
  LET hits == {i \in 1..Len(Servers) : tool \in SeqToSet(ServerTools[Servers[i]])}
  IN IF hits = {} THEN ""
     ELSE Servers[CHOOSE i \in hits : \A j \in hits : i <= j]

\* ChatSession._execute_tool_call once a provider is found: the text of a
\* TextContent, None for anything else (every exception is caught, 243-247)
execute_tool_call(out) == IF out.kind = "text" THEN Some(out.text) ELSE None

\* chat_session.py 185-187: "if result:" decides whether a ToolResult is queued
QueuedResult(result) ==
  IF result # None /\ result[1] # <<>> THEN Some(TextResult(result[1])) ELSE None

\* -------------------------------------------------------------------- state
VARIABLES
  pc,                      \* where start() is: "init", "wait" (suspended in
                           \* queue.get()), "run" (between two turns, not
                           \* suspended), "finally", "await_monitor", "gather",
                           \* "done"
  init_i,                  \* the provider start_initialization is at
  initialized,             \* the providers whose initialize() returned
  available_tools_schema,
  messages,
  input_queue,
  running_tools,           \* the keys of ChatSession.running_tools
  tool_counter,
  tasks,                   \* the tool tasks created so far, by task id
  monitor,                 \* the input monitor task
  inputs_read,
  debug_enabled,           \* CommandHandler._debug_enabled
  raised,                  \* an exception is propagating out of start()
  \* history variables
  arrivals,                \* items put on the queue so far
  puts,                    \* by task id, the items that task has queued
  execs,                   \* the execute_tool calls made, in order
  cleanup_log,             \* the providers whose cleanup() was invoked, in order
  turns,                   \* one record per call of _process_conversation_turn
  \* the parser on its own
  raw_text,                \* the argument of a call of _parse_llm_response
  parsed_response          \* what the call returned, None before it

chatVars ==
  <<pc, init_i, initialized, available_tools_schema, messages, input_queue,
    running_tools, tool_counter, tasks, monitor, inputs_read, debug_enabled,
    raised, arrivals, puts, execs, cleanup_log, turns>>

parserVars == <<raw_text, parsed_response>>

vars == <<chatVars, parserVars>>

sessionVars == <<messages, debug_enabled, turns>>
toolVars == <<running_tools, tool_counter, tasks, puts, execs>>
initVars == <<init_i, initialized, available_tools_schema>>

\* ChatSession.__init__
SessionInit ==
  /\ pc = "init"
  /\ init_i = 1
  /\ initialized = {}
  /\ available_tools_schema = <<>>
  /\ messages = <<>>
  /\ input_queue = <<>>
  /\ running_tools = {}
  /\ tool_counter = 0
  /\ tasks = <<>>
  /\ monitor = "none"
  /\ inputs_read = 0
  /\ debug_enabled = FALSE
  /\ raised = FALSE
  /\ arrivals = 0
  /\ puts = <<>>
  /\ execs = <<>>
  /\ cleanup_log = <<>>
  /\ turns = <<>>

\* a session: the parser is only called from the turns
Init ==
  /\ SessionInit
  /\ raw_text = <<>>
  /\ parsed_response = None

\* the consumer is suspended, so the event loop runs the other tasks
MainSuspended == pc \in {"init", "wait", "await_monitor", "gather"}

\* a cleanup_servers that lets the exception of a cleanup() escape: the
\* providers after the failing one are not cleaned up
cleanup_servers_propagating(log, failing) ==
  LET bad == {i \in 1..Len(Servers) : Servers[i] \in failing}
      n == IF bad = {} THEN Len(Servers)
           ELSE CHOOSE i \in bad : \A j \in bad : i <= j
  IN [log |-> log \o [i \in 1..n |-> [server |-> Servers[i],
                                       failed |-> Servers[i] \in failing]],
      raised |-> bad # {}]

\* ChatSession.cleanup_servers when the cleanup() of the providers in failing
\* raises: every provider, in the dict's order; an exception of a cleanup()
\* is logged and swallowed.  The calls made are appended to log
cleanup_servers(log, failing) ==
  [log |-> log \o [i \in 1..Len(Servers) |->
                     [server |-> Servers[i], failed |-> Servers[i] \in failing]],
   raised |-> FALSE]

\* a queue that hands out the newest item first
queue_get_newest(q) == [item |-> q[Len(q)], rest |-> SubSeq(q, 1, Len(q) - 1)]

\* input_queue.get() on a non-empty queue: the oldest item, and the rest
queue_get(q) == [item |-> Head(q), rest |-> Tail(q)]

\* input_queue.put(item)
Put(item) ==
  /\ input_queue' = Append(input_queue, item)
  /\ arrivals' = arrivals + 1

\* --------------------------------------------------------- initialization
\* start_initialization, one provider per step; after the last one the system
\* prompt is appended and start() creates the input monitor
InitServerOk ==
  /\ pc = "init"
  /\ LET s == Servers[init_i]
         schema == available_tools_schema \o ServerTools[s]
     IN /\ initialized' = initialized \cup {s}
        /\ available_tools_schema' = schema
        /\ IF init_i < Len(Servers)
           THEN /\ init_i' = init_i + 1
                /\ UNCHANGED <<pc, messages, monitor>>
           ELSE /\ messages' = Append(messages, SystemMessage(schema))
                /\ monitor' = "running"
                /\ pc' = "wait"
                /\ UNCHANGED init_i
  /\ UNCHANGED <<input_queue, inputs_read, debug_enabled, raised, arrivals,
                 cleanup_log, turns>>
  /\ UNCHANGED toolVars
  /\ UNCHANGED parserVars

\* an initialization that logs the failure of a provider and goes on with the
\* next one
InitServerSkips ==
  /\ pc = "init"
  /\ IF init_i < Len(Servers)
     THEN /\ init_i' = init_i + 1
          /\ UNCHANGED <<pc, messages, monitor>>
     ELSE /\ messages' = Append(messages, SystemMessage(available_tools_schema))
          /\ monitor' = "running"
          /\ pc' = "wait"
          /\ UNCHANGED init_i
  /\ UNCHANGED <<initialized, available_tools_schema, input_queue, inputs_read,
                 debug_enabled, raised, arrivals, cleanup_log, turns>>
  /\ UNCHANGED toolVars
  /\ UNCHANGED parserVars

\* initialize() or list_tools() of the provider raises: cleanup_servers(),
\* re-raise, and the finally block of start() (no monitor, no tools) runs
\* cleanup_servers() again
InitServerFails ==
  /\ pc = "init"
  /\ \E f1, f2 \in SUBSET SeqToSet(Servers) :
       cleanup_log' = cleanup_servers(cleanup_servers(cleanup_log, f1).log, f2).log
  /\ raised' = TRUE
  /\ pc' = "done"
  /\ UNCHANGED <<input_queue, inputs_read, monitor, arrivals>>
  /\ UNCHANGED sessionVars
  /\ UNCHANGED toolVars
  /\ UNCHANGED initVars
  /\ UNCHANGED parserVars

\* ------------------------------------------------------- the input monitor
\* _monitor_user_input: a line was read and is queued
MonitorInput ==
  /\ monitor = "running"
  /\ MainSuspended
  /\ inputs_read < MaxInputs
  /\ \E text \in UserTexts : Put(UserInput(text, arrivals + 1))
  /\ inputs_read' = inputs_read + 1
  /\ UNCHANGED <<pc, monitor, raised, cleanup_log>>
  /\ UNCHANGED sessionVars
  /\ UNCHANGED toolVars
  /\ UNCHANGED initVars
  /\ UNCHANGED parserVars

\* EOF (or KeyboardInterrupt) on input: the monitor leaves its loop
MonitorEOF ==
  /\ monitor = "running"
  /\ MainSuspended
  /\ monitor' = "eof"
  /\ UNCHANGED <<pc, input_queue, inputs_read, raised, arrivals, cleanup_log>>
  /\ UNCHANGED sessionVars
  /\ UNCHANGED toolVars
  /\ UNCHANGED initVars
  /\ UNCHANGED parserVars

\* the CancelledError of input_monitor.cancel() reaches the monitor
MonitorCancelled ==
  /\ monitor = "cancelling"
  /\ pc = "await_monitor"
  /\ monitor' = "cancelled"
  /\ UNCHANGED <<pc, input_queue, inputs_read, raised, arrivals, cleanup_log>>
  /\ UNCHANGED sessionVars
  /\ UNCHANGED toolVars
  /\ UNCHANGED initVars
  /\ UNCHANGED parserVars

\* ------------------------------------------------------------- the consumer
\* a counter that hands out the same id again
start_tool_execution_reused(counter) == [counter |-> counter + 1, task_id |-> 1]

\* _start_tool_execution: the counter is incremented and names the task
start_tool_execution(counter) ==
  [counter |-> counter + 1, task_id |-> counter + 1]

\* a dispatch that awaits the tool: the task has ended when the turn returns
NewTaskAwaited(tc, running) ==
  [state |-> "finished", tool |-> tc.tool, args |-> tc.args, server |-> "",
   cancel |-> FALSE, outcome |-> "none", concurrent |-> running]

\* the asyncio.Task _start_tool_execution creates for a tool call: it is only
\* scheduled.  concurrent records the tasks still running at that moment
NewTask(tc, running) ==
  [state |-> "created", tool |-> tc.tool, args |-> tc.args, server |-> "",
   cancel |-> FALSE, outcome |-> "none", concurrent |-> running]

\* the record of one turn
TurnRecord(item, t, before, started, rest) ==
  [item |-> item, queue_after |-> rest, ret |-> t.ret, before |-> before, after |-> t.messages,
   llm_called |-> t.llm_called, llm_arg |-> t.llm_arg, raw |-> t.raw,
   started |-> started, response |-> t.response]

\* a loop that leaves only once the queue is empty: the items queued behind
\* the one that ends the session still get their turn
ProcessTurnDraining ==
  /\ pc \in {"wait", "run"}
  /\ input_queue # <<>>
  /\ \E o \in LLMOutcomes :
       LET got == queue_get(input_queue)
           item == got.item
           t == process_conversation_turn(item, messages, o, debug_enabled)
           started == start_tool_execution(tool_counter)
           task_id == started.task_id
       IN /\ (t.dispatch # None) => tool_counter < MaxTools
          /\ messages' = t.messages
          /\ debug_enabled' = t.debug
          /\ input_queue' = got.rest
          /\ IF t.dispatch # None
             THEN /\ tool_counter' = started.counter
                  /\ tasks' = Append(tasks, NewTask(t.dispatch[1], running_tools))
                  /\ running_tools' = running_tools \cup {task_id}
                  /\ puts' = Append(puts, <<>>)
                  /\ turns' = Append(turns,
                                     TurnRecord(item, t, messages, Some(task_id),
                                                got.rest))
             ELSE /\ UNCHANGED <<tool_counter, tasks, running_tools, puts>>
                  /\ turns' = Append(turns, TurnRecord(item, t, messages, None, got.rest))
          /\ pc' = IF got.rest # <<>> THEN "run"
                   ELSE IF t.ret = "True" THEN "wait" ELSE "finally"
          /\ raised' = (t.ret = "raise")
  /\ UNCHANGED <<monitor, inputs_read, arrivals, execs, cleanup_log>>
  /\ UNCHANGED initVars
  /\ UNCHANGED parserVars

\* one iteration of the loop of start(): _process_conversation_turn on the
\* head of the queue, with _start_tool_execution when the response holds a
\* tool call.  queue.get() on a non-empty queue does not suspend, so after a
\* turn the consumer goes on ("run") while items are left
ProcessTurn ==
  /\ pc \in {"wait", "run"}
  /\ input_queue # <<>>
  /\ \E o \in LLMOutcomes :
       LET got == queue_get(input_queue)
           item == got.item
           t == process_conversation_turn(item, messages, o, debug_enabled)
           started == start_tool_execution(tool_counter)
           task_id == started.task_id
       IN /\ (t.dispatch # None) => tool_counter < MaxTools
          /\ messages' = t.messages
          /\ debug_enabled' = t.debug
          /\ input_queue' = got.rest
          /\ IF t.dispatch # None
             THEN /\ tool_counter' = started.counter
                  /\ tasks' = Append(tasks, NewTask(t.dispatch[1], running_tools))
                  /\ running_tools' = running_tools \cup {task_id}
                  /\ puts' = Append(puts, <<>>)
                  /\ turns' = Append(turns,
                                     TurnRecord(item, t, messages, Some(task_id),
                                                got.rest))
             ELSE /\ UNCHANGED <<tool_counter, tasks, running_tools, puts>>
                  /\ turns' = Append(turns, TurnRecord(item, t, messages, None, got.rest))
          /\ pc' = IF t.ret = "True"
                   THEN (IF got.rest = <<>> THEN "wait" ELSE "run")
                   ELSE "finally"
          /\ raised' = (t.ret = "raise")
  /\ UNCHANGED <<monitor, inputs_read, arrivals, execs, cleanup_log>>
  /\ UNCHANGED initVars
  /\ UNCHANGED parserVars

\* ------------------------------------------------------------ the tool tasks
\* outcome records how the task ended
TaskDone(id, state, outcome) ==
  [tasks EXCEPT ![id].state = state, ![id].outcome = outcome]

\* a tool task runs for the first time: it enters the try of
\* _execute_tool_and_queue_result and awaits list_tools() of the providers
ToolTaskStart(id) ==
  /\ MainSuspended
  /\ tasks[id].state = "created" /\ ~tasks[id].cancel
  /\ tasks' = [tasks EXCEPT ![id].state = "lookup"]
  /\ UNCHANGED <<pc, monitor, inputs_read, raised, cleanup_log, input_queue,
                 arrivals, tool_counter, puts, running_tools, execs>>
  /\ UNCHANGED sessionVars
  /\ UNCHANGED initVars
  /\ UNCHANGED parserVars

\* the lookup of _execute_tool_call ends: with no provider it returns None,
\* nothing is queued and the finally clause drops the entry; otherwise the
\* task calls execute_tool on the provider found and awaits it
ToolTaskLookup(id) ==
  /\ MainSuspended
  /\ tasks[id].state = "lookup" /\ ~tasks[id].cancel
  /\ LET server == FindToolServer(tasks[id].tool)
     IN IF server = ""
        THEN /\ tasks' = TaskDone(id, "finished", "not_found")
             /\ running_tools' = running_tools \ {id}
             /\ UNCHANGED execs
        ELSE /\ tasks' = [tasks EXCEPT ![id].state = "executing",
                                       ![id].server = server]
             /\ execs' = Append(execs, [id |-> id, server |-> server,
                                        tool |-> tasks[id].tool,
                                        args |-> tasks[id].args])
             /\ UNCHANGED running_tools
  /\ UNCHANGED <<pc, monitor, inputs_read, raised, cleanup_log, input_queue,
                 arrivals, tool_counter, puts>>
  /\ UNCHANGED sessionVars
  /\ UNCHANGED initVars
  /\ UNCHANGED parserVars

\* a provider's list_tools() raises during the lookup (outside the try of
\* _execute_tool_call): the except clause of _execute_tool_and_queue_result
\* queues an error result
ToolTaskLookupFails(id) ==
  /\ MainSuspended
  /\ tasks[id].state = "lookup" /\ ~tasks[id].cancel
  /\ LET r == ErrorResult(<<"list_tools failed">>, tasks[id].tool)
         item == ToolResult(id, r, tasks[id].tool, arrivals + 1)
     IN /\ Put(item)
        /\ puts' = [puts EXCEPT ![id] = Append(@, item)]
  /\ tasks' = TaskDone(id, "finished", "lookup_raised")
  /\ running_tools' = running_tools \ {id}
  /\ UNCHANGED <<pc, monitor, inputs_read, raised, cleanup_log, tool_counter, execs>>
  /\ UNCHANGED sessionVars
  /\ UNCHANGED initVars
  /\ UNCHANGED parserVars

\* execute_tool ends with outcome out: _execute_tool_and_queue_result queues
\* the result when there is one, and its finally clause drops the entry
ToolTaskFinish(id) ==
  /\ MainSuspended
  /\ tasks[id].state = "executing" /\ ~tasks[id].cancel
  /\ \E out \in ToolOutcomes :
       LET q == QueuedResult(execute_tool_call(out))
       IN /\ IF q # None
             THEN LET item == ToolResult(id, q[1], tasks[id].tool, arrivals + 1)
                  IN /\ Put(item)
                     /\ puts' = [puts EXCEPT ![id] = Append(@, item)]
             ELSE UNCHANGED <<input_queue, arrivals, puts>>
          /\ tasks' = TaskDone(id, "finished",
                               IF out.kind = "text" /\ out.text = <<>>
                               THEN "empty_text" ELSE out.kind)
  /\ running_tools' = running_tools \ {id}
  /\ UNCHANGED <<pc, monitor, inputs_read, raised, cleanup_log, tool_counter, execs>>
  /\ UNCHANGED initVars
  /\ UNCHANGED parserVars

\* a tool task that wrote its result into the history itself
ToolTaskCompleteDirect(id) ==
  /\ ToolTaskFinish(id)
  /\ messages' = Append(messages, Message(ToolResultRole, <<tasks[id].tool>>))
  /\ UNCHANGED <<debug_enabled, turns>>

\* the task only queues: the history is left to the consumer
ToolTaskComplete(id) ==
  /\ ToolTaskFinish(id)
  /\ UNCHANGED sessionVars

\* the CancelledError of task.cancel() reaches the task: a task that never ran
\* ends without entering its try (its entry stays); a task awaiting
\* list_tools or execute_tool runs its finally clause; neither queues anything
ToolTaskCancelled(id) ==
  /\ MainSuspended
  /\ tasks[id].cancel /\ tasks[id].state \in {"created", "lookup", "executing"}
  /\ tasks' = TaskDone(id, "cancelled", "cancelled")
  /\ running_tools' = IF tasks[id].state = "created"
                      THEN running_tools ELSE running_tools \ {id}
  /\ UNCHANGED <<pc, monitor, inputs_read, raised, cleanup_log, input_queue,
                 arrivals, tool_counter, puts, execs>>
  /\ UNCHANGED sessionVars
  /\ UNCHANGED initVars
  /\ UNCHANGED parserVars

\* ----------------------------------------------------------------- shutdown
\* chat_session.py 409-421: cancel every task of running_tools; with none left
\* to await, cleanup_servers() runs at once
CancelTools ==
  /\ tasks' = [id \in DOMAIN tasks |->
                 IF id \in running_tools THEN [tasks[id] EXCEPT !.cancel = TRUE]
                 ELSE tasks[id]]
  /\ IF running_tools = {}
     THEN /\ \E failing \in SUBSET SeqToSet(Servers) :
               LET c == cleanup_servers(cleanup_log, failing)
               IN cleanup_log' = c.log /\ raised' = (raised \/ c.raised)
          /\ pc' = "done"
     ELSE /\ pc' = "gather"
          /\ UNCHANGED <<cleanup_log, raised>>

\* a finally block that goes to the tool tasks at once and leaves the input
\* monitor as it is
FinallyBeginToolsFirst ==
  /\ pc = "finally"
  /\ CancelTools
  /\ UNCHANGED monitor
  /\ UNCHANGED <<inputs_read, input_queue, arrivals, running_tools,
                 tool_counter, puts, execs>>
  /\ UNCHANGED sessionVars
  /\ UNCHANGED initVars
  /\ UNCHANGED parserVars

\* the finally block of start() begins: the monitor is cancelled and awaited;
\* a monitor that already ended is not waited for
FinallyBegin ==
  /\ pc = "finally"
  /\ IF monitor = "running"
     THEN /\ monitor' = "cancelling"
          /\ pc' = "await_monitor"
          /\ UNCHANGED <<tasks, cleanup_log, raised>>
     ELSE /\ CancelTools
          /\ UNCHANGED monitor
  /\ UNCHANGED <<inputs_read, input_queue, arrivals, running_tools,
                 tool_counter, puts, execs>>
  /\ UNCHANGED sessionVars
  /\ UNCHANGED initVars
  /\ UNCHANGED parserVars

\* "await input_monitor" returns
FinallyTools ==
  /\ pc = "await_monitor"
  /\ monitor = "cancelled"
  /\ CancelTools
  /\ UNCHANGED <<monitor, inputs_read, input_queue, arrivals,
                 running_tools, tool_counter, puts, execs>>
  /\ UNCHANGED sessionVars
  /\ UNCHANGED initVars
  /\ UNCHANGED parserVars

\* a cleanup that does not wait for the cancelled tasks
GatherNoWait ==
  /\ pc = "gather"
  /\ \E failing \in SUBSET SeqToSet(Servers) :
       LET c == cleanup_servers(cleanup_log, failing)
       IN cleanup_log' = c.log /\ raised' = (raised \/ c.raised)
  /\ pc' = "done"
  /\ UNCHANGED <<monitor, inputs_read, input_queue, arrivals>>
  /\ UNCHANGED sessionVars
  /\ UNCHANGED toolVars
  /\ UNCHANGED initVars
  /\ UNCHANGED parserVars

\* asyncio.gather returns once every cancelled task has ended
GatherDone ==
  /\ pc = "gather"
  /\ \A id \in DOMAIN tasks : tasks[id].state \in {"finished", "cancelled"}
  /\ \E failing \in SUBSET SeqToSet(Servers) :
       LET c == cleanup_servers(cleanup_log, failing)
       IN cleanup_log' = c.log /\ raised' = (raised \/ c.raised)
  /\ pc' = "done"
  /\ UNCHANGED <<monitor, inputs_read, input_queue, arrivals>>
  /\ UNCHANGED sessionVars
  /\ UNCHANGED toolVars
  /\ UNCHANGED initVars
  /\ UNCHANGED parserVars

Next ==
  \/ InitServerOk
  \/ InitServerFails
  \/ MonitorInput
  \/ MonitorEOF
  \/ MonitorCancelled
  \/ ProcessTurn
  \/ \E id \in DOMAIN tasks : ToolTaskStart(id)
  \/ \E id \in DOMAIN tasks : ToolTaskLookup(id)
  \/ \E id \in DOMAIN tasks : ToolTaskLookupFails(id)
  \/ \E id \in DOMAIN tasks : ToolTaskComplete(id)
  \/ \E id \in DOMAIN tasks : ToolTaskCancelled(id)
  \/ FinallyBegin
  \/ FinallyTools
  \/ GatherDone

Spec == Init /\ [][Next]_vars

TypeOK ==
  /\ pc \in {"init", "wait", "run", "finally", "await_monitor", "gather", "done"}
  /\ tool_counter = Len(tasks) /\ Len(puts) = Len(tasks)
  /\ running_tools \subseteq DOMAIN tasks
  /\ monitor \in {"none", "running", "eof", "cancelling", "cancelled"}

\* ------------------------------------------------------ the parser alone
\* _parse_llm_response applied to raw texts built from up to MaxBlocks blocks:
\* channels of every kind, start markers and untagged text, in any order
ToolNames == {"get_weather", "list_directory"}
Namespaces == {<<"functions.">>, <<"ns.">>}

\* a tool-call channel: "<|channel|>commentary to=" ns T [" "] "json<|message|>" body
ToolChannel(ns, T, sp, body) ==
  <<CH, "commentary", " to=">> \o ns \o <<T>> \o sp \o <<"json", MSG>> \o body

Blocks ==
  { <<CH, "analysis", MSG, "Need the weather.">>,
    <<CH, "final", MSG, " ", "Done.", " ">>,
    <<CH, "commentary", MSG, "note">>,
    <<START, "assistant">>,
    <<"Hello there.">>,
    ToolChannel(<<"functions.">>, "get_weather", <<" ">>, <<JLondon>>),
    ToolChannel(<<"functions.">>, "list_directory", <<>>, <<" ", JPath>>),
    ToolChannel(<<"ns.">>, "get_weather", <<" ">>, <<JLondon>>),
    ToolChannel(<<>>, "list_directory", <<" ">>, <<JPath>>),
    ToolChannel(<<"functions.">>, "get_weather", <<" ">>, <<"{\"location\": ">>) }

RECURSIVE TextsOf(_)
TextsOf(n) ==
  IF n = 0 THEN {<<>>}
  ELSE LET shorter == TextsOf(n - 1)
       IN shorter \cup {t \o b : t \in shorter, b \in Blocks}

RawTexts == TextsOf(MaxBlocks)

ParserInit ==
  /\ SessionInit
  /\ raw_text \in RawTexts
  /\ parsed_response = None

\* one call of _parse_llm_response(raw_text)
Parse ==
  /\ parsed_response = None
  /\ parsed_response' = Some(parse_llm_response(raw_text))
  /\ UNCHANGED <<raw_text, chatVars>>

ParserNext == Parse

ParserSpec == ParserInit /\ [][ParserNext]_vars

\* ------------------------------------------------------------------- claims
InitDone == initialized = SeqToSet(Servers)

LoopEnded == pc \in {"finally", "await_monitor", "gather", "done"}

HasMessage(parsed) == parsed.message # None /\ parsed.message[1] # <<>>

\* C1: every dispatched tool call whose execution has ended, successfully or
\* not, has put exactly one ToolResult carrying its task id on the input
\* queue, and its entry is gone from running_tools.
C1_ExactlyOnceDelivery ==
  \A id \in DOMAIN tasks :
    tasks[id].state = "finished" =>
      Len(puts[id]) = 1 /\ id \notin running_tools

\* C2: when execute_tool raised or returned an unsupported result type, the
\* task has put a ToolResult whose payload is an error descriptor holding the
\* error text and the tool name.
C2_FailureBecomesErrorResult ==
  \A id \in DOMAIN tasks :
    (tasks[id].state = "finished" /\ tasks[id].outcome \in {"raise", "unsupported"})
      => \E k \in 1..Len(puts[id]) :
           /\ puts[id][k].result.kind = "error"
           /\ puts[id][k].result.tool = tasks[id].tool

\* C3: a turn whose tool call names a tool no provider lists creates no task,
\* and an error ToolResult for that tool is on the queue when the turn's
\* dispatch has returned.
C3_UnknownToolReportedAtDispatch ==
  \A i \in DOMAIN turns :
    LET t == turns[i]
        tc == parse_llm_response(t.raw[1]).tool_call
    IN (t.raw # None /\ tc # None /\ FindToolServer(tc[1].tool) = "")
         => /\ t.started = None
            /\ \E k \in 1..Len(t.queue_after) :
                 /\ t.queue_after[k].type = "tool_result"
                 /\ t.queue_after[k].result.kind = "error"
                 /\ t.queue_after[k].tool_name = tc[1].tool

\* C4: after a successful initialization the loop of start() ends only on a
\* dequeued exit keyword: no turn raises.
C4_OnlyExitEndsLoop ==
  (InitDone /\ LoopEnded) =>
    /\ ~raised
    /\ turns # <<>>
    /\ turns[Len(turns)].ret = "False"
    /\ turns[Len(turns)].item.type = "user"

\* C5: once initialization has completed, the first message is the system
\* prompt built at initialization, and the system prompt occurs exactly once
\* in the history.
C5_SystemPromptFirst ==
  LET prompt == [role |-> "system",
                 content |->
                   <<"You are a helpful assistant with access to these tools:",
                     "get_weather", "get_weather", "list_directory",
                     "Please use only the tools that are explicitly defined above.">>]
  IN InitDone =>
       /\ Len(messages) >= 1
       /\ messages[1] = prompt
       /\ Cardinality({i \in DOMAIN messages : messages[i] = prompt}) = 1

\* C5 witness: a session that ended after a tool result was processed.
C5_Witness ==
  /\ pc = "done" /\ InitDone /\ Len(messages) >= 4
  /\ \E i \in DOMAIN turns : turns[i].item.type = "tool_result"

\* C6: after initialization every step that changes the message history is a
\* turn of the consumer; a step of a tool task or of the input monitor leaves
\* the history as it is.
C6_OnlyConsumerMutatesHistory ==
  [][(InitDone /\ messages' # messages)
       => (pc \in {"wait", "run"} /\ Len(turns') = Len(turns) + 1)]_vars

\* C6 witness: a tool task and the input monitor have both queued an item and
\* the history has grown.
C6_Witness ==
  /\ inputs_read >= 1 /\ Len(messages) >= 3
  /\ \E id \in DOMAIN tasks : Len(puts[id]) = 1

\* C7: items are processed in the order they were queued: the i-th turn is
\* the turn of the i-th item put on the queue, and the items waiting are the
\* next arrivals in order, user inputs and tool results alike.
C7_FifoOrder ==
  /\ \A i \in DOMAIN turns : turns[i].item.seq = i
  /\ \A k \in DOMAIN input_queue : input_queue[k].seq = Len(turns) + k

\* C7 witness: a user input was processed while a tool result waited behind
\* it, or a tool result while a user input waited, and the waiting item had
\* its turn next.
C7_Witness ==
  \E i \in DOMAIN turns :
    /\ i + 1 \in DOMAIN turns
    /\ turns[i].queue_after # <<>>
    /\ turns[i].queue_after[1] = turns[i + 1].item
    /\ turns[i].item.type # turns[i + 1].item.type

\* C8: a turn whose user input is a command (trimmed text starts with "/")
\* leaves the history unchanged, calls no model, starts no tool task and
\* returns True.
C8_CommandTurnIsLocal ==
  \A i \in DOMAIN turns :
    LET t == turns[i]
    IN (t.item.type = "user" /\ Strip(t.item.content) # <<>>
          /\ Head(Strip(t.item.content)) = "/")
         => /\ t.after = t.before
            /\ ~t.llm_called
            /\ t.started = None
            /\ t.ret = "True"

\* C9: a turn whose user input, trimmed and lower-cased, is "quit" or "exit"
\* returns False, appends nothing, calls no model and runs no command; it is
\* the last turn of the session.
C9_ExitEndsSession ==
  \A i \in DOMAIN turns :
    LET t == turns[i]
    IN (t.item.type = "user"
          /\ Lower(Strip(t.item.content)) \in {<<"quit">>, <<"exit">>})
         => /\ t.ret = "False"
            /\ t.after = t.before
            /\ ~t.llm_called
            /\ t.started = None
            /\ t.response = None
            /\ i = Len(turns)
            /\ LoopEnded

\* C9 witness: the line "  EXIT  " was dequeued and ended the session.
C9_Witness ==
  \E i \in DOMAIN turns :
    turns[i].item.content = <<" ", "EXIT", " ">> /\ turns[i].ret = "False"

\* the end-to-end scenario of C10: the first turn is a user input answered
\* with a tool call alone, the second the turn of that tool's result answered
\* with a final message alone
C10_Scenario ==
  /\ Len(turns) >= 2
  /\ turns[1].item.type = "user" /\ turns[1].raw # None
  /\ turns[1].before = <<SystemMessage(available_tools_schema)>>
  /\ parse_llm_response(turns[1].raw[1]).tool_call # None
  /\ ~HasMessage(parse_llm_response(turns[1].raw[1]))
  /\ turns[1].started # None
  /\ turns[2].item.type = "tool_result"
  /\ turns[2].item.tool_id = turns[1].started[1]
  /\ turns[2].raw # None
  /\ parse_llm_response(turns[2].raw[1]).tool_call = None
  /\ HasMessage(parse_llm_response(turns[2].raw[1]))

C10_Expected(role) ==
  << SystemMessage(available_tools_schema),
     [role |-> "user", content |-> turns[1].item.content],
     [role |-> "assistant",
      content |-> ToolCallSummary(parse_llm_response(turns[1].raw[1]).tool_call[1]).content],
     [role |-> role, content |-> JsonDumps(turns[2].item.result)],
     [role |-> "assistant",
      content |-> parse_llm_response(turns[2].raw[1]).message[1]] >>

\* C10 as stated: after the two turns of the scenario the history is exactly
\* [system, user, assistant(tool-call summary), tool(payload),
\* assistant(final text)], the tool-result message carrying role "tool".
C10_HistoryWithToolRole ==
  C10_Scenario => turns[2].after = C10_Expected("tool")

\* C10 amended: after the two turns of the scenario the history is exactly
\* [system, user, assistant(tool-call summary), system(JSON of the payload),
\* assistant(final text)]: the tool-result message carries role "system".
C10_HistoryWithSystemRole ==
  C10_Scenario =>
    /\ turns[2].after = C10_Expected("system")
    /\ Len(turns) = 2 => messages = C10_Expected("system")

\* C10 witness: the scenario has run.
C10_Witness == C10_Scenario /\ Len(messages) = 5

\* the step is a turn that dispatched a tool call
DispatchStep ==
  Len(turns') = Len(turns) + 1 /\ turns'[Len(turns')].started # None

\* C11: when a turn whose response holds a tool call for a tool some provider
\* lists returns, that provider's execute_tool has been called exactly once
\* with the parsed tool name and the parsed arguments.
C11_ExecutedWhenTurnReturns ==
  [][DispatchStep =>
       LET t == turns'[Len(turns')]
           tc == parse_llm_response(t.raw[1]).tool_call[1]
           calls == {k \in DOMAIN execs' :
                       /\ execs'[k].id = t.started[1]
                       /\ execs'[k].server = FindToolServer(tc.tool)
                       /\ execs'[k].tool = tc.tool
                       /\ execs'[k].args = tc.args}
       IN FindToolServer(tc.tool) # "" => Cardinality(calls) = 1]_vars

\* C12: dispatch does not block.  When a dispatching turn returns, the tool
\* task is only scheduled (it has not run and has queued nothing), the turn
\* has returned True and the consumer is back at the queue, free to take the
\* next item while the tool runs.
C12_DispatchDoesNotBlock ==
  [][DispatchStep =>
       LET id == turns'[Len(turns')].started[1]
       IN /\ tasks'[id].state = "created"
          /\ puts'[id] = <<>>
          /\ pc' \in {"wait", "run"}
          /\ turns'[Len(turns')].ret = "True"]_vars

\* C12 witness: while the first tool is still executing, the consumer has
\* processed a further user input and the result of another tool.
C12_Witness ==
  \E i, j, k \in DOMAIN turns :
    /\ i < j /\ i < k
    /\ turns[i].started # None
    /\ tasks[turns[i].started[1]].state = "executing"
    /\ turns[j].item.type = "user" /\ turns[j].ret = "True"
    /\ turns[k].item.type = "tool_result"
    /\ turns[k].item.tool_id # turns[i].started[1]
    /\ turns[k].ret = "True"

\* C13: of two tool calls dispatched concurrently (the first still running
\* when the second is dispatched), once both have ended, in whichever order,
\* each has put exactly one ToolResult on the queue, tagged with its own task
\* id and tool name.
C13_TwoResultsOwnTags ==
  \A a, b \in DOMAIN tasks :
    (a \in tasks[b].concurrent
       /\ tasks[a].state = "finished" /\ tasks[b].state = "finished")
      => \A id \in {a, b} :
           /\ Len(puts[id]) = 1
           /\ puts[id][1].tool_id = id
           /\ puts[id][1].tool_name = tasks[id].tool

Terminal(id) == tasks[id].state \in {"finished", "cancelled"}

ToolHeaders(raw) ==
  {i \in 1..(Len(raw) - 2) :
     raw[i] = CH /\ raw[i + 1] = "commentary" /\ raw[i + 2] = " to="}

ChannelBody(raw, i) ==
  LET ms == {k \in i..Len(raw) : raw[k] = MSG}
  IN IF ms = {} THEN <<>>
     ELSE BodyFrom(raw, (CHOOSE k \in ms : \A j \in ms : k <= j) + 1)

FirstToolHeader(raw) ==
  CHOOSE i \in ToolHeaders(raw) : \A j \in ToolHeaders(raw) : i <= j

\* C15: for a raw text with a tool-call channel, the JSON body of every
\* tool-call channel in it being malformed, whatever other channels it holds,
\* the parser returns no tool call and the fixed malformed-arguments message.
C15_MalformedGivesFixedMessage ==
  (parsed_response # None /\ ToolHeaders(raw_text) # {}
     /\ \A i \in ToolHeaders(raw_text) : ~JsonOk(ChannelBody(raw_text, i)))
    => /\ parsed_response[1].tool_call = None
       /\ parsed_response[1].message = Some(MalformedMessage)

\* the raw text holds no tool-call channel with a well-formed JSON body
NoWellFormedToolCall(raw) ==
  \A i \in ToolHeaders(raw) : ~JsonOk(ChannelBody(raw, i))

\* C16: a turn whose model response holds no tool call (no tool-call channel,
\* or only channels whose JSON is malformed) creates no task and leaves
\* tool_counter, running_tools and the providers' execute_tool calls as they
\* were; and every execute_tool call ever made belongs to a task dispatched by
\* a turn whose response did hold a well-formed tool call.
C16_NoToolCallNoExecution ==
  /\ [][(Len(turns') = Len(turns) + 1
           /\ turns'[Len(turns')].raw # None
           /\ NoWellFormedToolCall(turns'[Len(turns')].raw[1]))
          => /\ turns'[Len(turns')].started = None
             /\ tasks' = tasks
             /\ tool_counter' = tool_counter
             /\ running_tools' = running_tools
             /\ execs' = execs]_vars
  /\ [](\A k \in DOMAIN execs :
          \E i \in DOMAIN turns :
            /\ turns[i].started = Some(execs[k].id)
            /\ ~NoWellFormedToolCall(turns[i].raw[1]))

\* C16 witness: in a session that ran a tool, one turn got a final message
\* only and another a malformed tool call.
C16_Witness ==
  /\ execs # <<>>
  /\ \E i, j \in DOMAIN turns :
       /\ turns[i].raw = Some(RawFinal)
       /\ turns[j].raw = Some(RawMalformed)

\* the first tool-call channel of raw is the channel b, closed by a marker or
\* by the end of the text
FirstToolChannelIs(raw, b) ==
  /\ ToolHeaders(raw) # {}
  /\ LET i == FirstToolHeader(raw)
     IN /\ i + Len(b) - 1 <= Len(raw)
        /\ SubSeq(raw, i, i + Len(b) - 1) = b
        /\ (i + Len(b) > Len(raw) \/ IsMarker(raw[i + Len(b)]))

\* the well-formed tool-call channels "commentary to=" ns T [" "] "json" with
\* JSON document j as the body, possibly after a space
WellFormedChannels(ns, T, j) ==
  {ToolChannel(ns, T, sp, pad \o <<j>>) : sp \in {<<>>, <<" ">>}, pad \in {<<>>, <<" ">>}}

NoChannelRecognized(raw) ==
  /\ ToolHeaders(raw) = {}
  /\ ~\E i \in 1..(Len(raw) - 2) :
        raw[i] = CH /\ raw[i + 1] \in {"analysis", "final"} /\ raw[i + 2] = MSG

\* C18: for every raw text, empty, channel-tagged or untagged, the parser
\* returns a response with role "assistant" and the whole raw text, verbatim,
\* as commentary; when the text holds no recognized channel, thinking, message
\* and tool_call are all unset.
C18_RawTextKeptAsCommentary ==
  parsed_response # None =>
    /\ parsed_response[1].role = "assistant"
    /\ parsed_response[1].commentary = Some(raw_text)
    /\ NoChannelRecognized(raw_text) =>
         /\ parsed_response[1].thinking = None
         /\ parsed_response[1].message = None
         /\ parsed_response[1].tool_call = None

\* C18 witness: an untagged text followed by a bare commentary channel, which
\* the parser does not recognize, was parsed: nothing but role and commentary
\* is set.
C18_Witness ==
  /\ parsed_response # None
  /\ raw_text = <<"Hello there.", CH, "commentary", MSG, "note">>
  /\ NoChannelRecognized(raw_text)
  /\ parsed_response[1].message = None
  /\ parsed_response[1].commentary = Some(raw_text)

\* C19: get_response never raises: every turn that called the model, however
\* the HTTP exchange went, got a raw text back and did not end in an
\* exception.
C19_ModelCallAlwaysYieldsText ==
  \A i \in DOMAIN turns :
    turns[i].llm_called => (turns[i].raw # None /\ turns[i].ret # "raise")

\* C20: task ids are unique and strictly increasing in dispatch order: of two
\* dispatching turns the later one got the larger id, whatever has completed
\* or been cancelled in between, and the counter never decreases.
C20_TaskIdsStrictlyIncrease ==
  /\ [](\A i, j \in DOMAIN turns :
          (i < j /\ turns[i].started # None /\ turns[j].started # None)
            => turns[i].started[1] < turns[j].started[1])
  /\ [][tool_counter' >= tool_counter]_vars

\* C20 witness: a second tool call was dispatched after the first task had
\* completed and left running_tools, and got a new id.
C20_Witness ==
  \E i, j \in DOMAIN turns :
    /\ i < j /\ turns[i].started # None /\ turns[j].started # None
    /\ turns[i].started[1] \notin tasks[turns[j].started[1]].concurrent
    /\ turns[j].started[1] \in running_tools

\* C21: when a provider has failed during initialization (initialization is
\* over with not every provider initialized), only the providers before it
\* are initialized, the system prompt was not appended, the input monitor was
\* not started, nothing was queued or processed, every provider's cleanup was
\* invoked and the error has left start().
C21_InitFailureAborts ==
  (pc # "init" /\ ~InitDone) =>
    /\ pc = "done" /\ raised
    /\ initialized = {Servers[k] : k \in 1..(init_i - 1)}
    /\ messages = <<>>
    /\ monitor = "none" /\ inputs_read = 0
    /\ arrivals = 0 /\ turns = <<>> /\ tasks = <<>>
    /\ \A s \in SeqToSet(Servers) :
         \E k \in DOMAIN cleanup_log : cleanup_log[k].server = s

\* C21 witness: the second provider failed after the first was initialized.
C21_Witness ==
  /\ pc = "done" /\ raised
  /\ initialized = {Servers[1]} /\ init_i = 2
  /\ cleanup_log # <<>>

\* C22: at the shutdown of an initialized session the providers are torn
\* down in reverse registration order: the cleanup calls over the providers
\* p1..pn begin with pn and end with p1.
C22_ReverseTeardownOrder ==
  InitDone =>
    \A k \in DOMAIN cleanup_log :
      cleanup_log[k].server =
        Servers[Len(Servers) - ((k - 1) % Len(Servers))]

\* C23: a teardown error never blocks the others: whichever providers'
\* cleanup raises, every pass of cleanup_servers calls cleanup on every
\* registered provider, once each, and raises nothing itself (the cleanup at
\* the end of start() leaves the propagating-exception flag as it was).
C23_CleanupReachesEveryProvider ==
  /\ [](/\ Len(cleanup_log) % Len(Servers) = 0
        /\ \A p \in 0..((Len(cleanup_log) \div Len(Servers)) - 1) :
             \A s \in SeqToSet(Servers) :
               Cardinality({k \in 1..Len(Servers) :
                              cleanup_log[p * Len(Servers) + k].server = s}) = 1)
  /\ [][(cleanup_log' # cleanup_log /\ pc # "init") => (raised' = raised)]_vars

\* C23 witness: a session ended normally, and in its teardown the cleanup of
\* the first provider raised and the cleanup of the second was still called.
C23_Witness ==
  /\ pc = "done" /\ ~raised /\ InitDone
  /\ cleanup_log # <<>>
  /\ cleanup_log[1].failed
  /\ Len(cleanup_log) = Len(Servers)

\* the history message a turn appends for its item
InputMessage(item) ==
  IF item.type = "user" THEN [role |-> "user", content |-> item.content]
  ELSE [role |-> "system", content |-> JsonDumps(item.result)]

\* C24: a turn whose parsed response holds both a tool call and a final
\* message keeps both: after the input message it appends the assistant
\* tool-call summary, dispatches the tool, and appends the assistant final
\* message, so the history grows by the input message and two assistant
\* messages, in that order.
C24_ToolCallAndFinalBothKept ==
  \A i \in DOMAIN turns :
    LET t == turns[i]
        p == parse_llm_response(t.raw[1])
    IN (t.raw # None /\ p.tool_call # None /\ HasMessage(p))
         => /\ t.after =
                 t.before \o
                   << InputMessage(t.item),
                      [role |-> "assistant",
                       content |-> ToolCallSummary(p.tool_call[1]).content],
                      [role |-> "assistant", content |-> p.message[1]] >>
            /\ t.started # None
            /\ tasks[t.started[1]].tool = p.tool_call[1].tool
            /\ tasks[t.started[1]].args = p.tool_call[1].args
            /\ t.ret = "True"

\* C24 witness: the model answered a user input with a tool call for
\* list_directory together with a final message.
C24_Witness ==
  \E i \in DOMAIN turns :
    /\ turns[i].raw = Some(RawBoth)
    /\ turns[i].item.type = "user"
    /\ turns[i].started # None
    /\ Len(turns[i].after) = Len(turns[i].before) + 3

\* the item is a tool result, or a user input that is neither an exit keyword
\* nor a command
NeedsModel(item) ==
  \/ item.type = "tool_result"
  \/ /\ item.type = "user"
     /\ Lower(Strip(item.content)) \notin {<<"quit">>, <<"exit">>}
     /\ ~(Strip(item.content) # <<>> /\ Head(Strip(item.content)) = "/")

\* C25: the turn of every tool result and of every user input that is neither
\* an exit keyword nor a command calls the model, after the item was appended,
\* with the full history whose last message is that item; and the calls are
\* made one after the other in queue order, each seeing the history of the
\* earlier ones extended.
C25_OneModelCallPerTurn ==
  /\ \A i \in DOMAIN turns :
       NeedsModel(turns[i].item) =>
         /\ turns[i].llm_called
         /\ turns[i].llm_arg = turns[i].before \o <<InputMessage(turns[i].item)>>
  /\ \A i, j \in DOMAIN turns :
       (i < j /\ turns[i].llm_called /\ turns[j].llm_called) =>
         /\ Len(turns[i].llm_arg) < Len(turns[j].llm_arg)
         /\ SubSeq(turns[j].llm_arg, 1, Len(turns[i].llm_arg)) = turns[i].llm_arg

\* C25 witness: the model was called for a user input and then for the result
\* of the tool it asked for.
C25_Witness ==
  \E i, j \in DOMAIN turns :
    /\ i < j
    /\ turns[i].item.type = "user" /\ turns[i].llm_called
    /\ turns[i].started # None
    /\ turns[j].item.type = "tool_result" /\ turns[j].llm_called
    /\ turns[j].item.tool_id = turns[i].started[1]

\* C26: when the parsed response has neither a tool call nor a final message
\* (thinking or commentary only), the response changes nothing: after the
\* turn the history is the pre-turn history plus the one input message, and
\* no tool task was started.
C26_ThinkingOnlyLeavesHistory ==
  \A i \in DOMAIN turns :
    LET t == turns[i]
        p == parse_llm_response(t.raw[1])
    IN (t.raw # None /\ p.tool_call = None /\ p.message = None)
         => /\ t.after = t.before \o <<InputMessage(t.item)>>
            /\ t.started = None
            /\ t.ret = "True"

\* C26 witness: one turn was answered with an analysis channel alone and
\* another with untagged text.
C26_Witness ==
  \E i, j \in DOMAIN turns :
    /\ turns[i].raw = Some(RawThinking)
    /\ turns[j].raw = Some(RawPlain)
    /\ Len(messages) = 3

\* the JSON encoding of a payload, spelled out
PayloadJson(r) ==
  IF r.kind = "text" THEN <<"\"">> \o r.text \o <<"\"">>
  ELSE <<"{\"error\": \"">> \o r.text \o <<"\", \"tool\": \"", r.tool, "\"}">>

C28_FirstRegisteredProviderWins ==
  /\ \A k \in DOMAIN execs :
       \E i \in 1..Len(Servers) :
         /\ Servers[i] = execs[k].server
         /\ execs[k].tool \in SeqToSet(ServerTools[Servers[i]])
         /\ \A j \in 1..(i - 1) : execs[k].tool \notin SeqToSet(ServerTools[Servers[j]])
  /\ \A k, l \in DOMAIN execs : execs[k].id = execs[l].id => k = l

\* C28 witness: get_weather, listed by both providers, was executed on the
\* first, and list_directory on the second, the only one listing it.
C28_Witness ==
  /\ \E k \in DOMAIN execs :
       execs[k].tool = "get_weather" /\ execs[k].server = "s1"
  /\ \E k \in DOMAIN execs :
       execs[k].tool = "list_directory" /\ execs[k].server = "s2"

\* the tool-call channel beginning at i, read on its own: the name addressed
\* (without the "functions." prefix and the space before "json") and the
\* arguments its body holds
ChannelToolCall(raw, i) ==
  LET ks == {k \in (i + 3)..(Len(raw) - 1) : raw[k] = "json" /\ raw[k + 1] = MSG}
      k == CHOOSE a \in ks : \A b \in ks : a <= b
      s == IF raw[i + 3] = "functions." THEN i + 4 ELSE i + 3
      e == IF raw[k - 1] = " " THEN k - 2 ELSE k - 1
  IN [tool |-> Join(SubSeq(raw, s, e)),
      args |-> JsonLoads(Strip(ChannelBody(raw, i))[1])]

WellFormedHeaders(raw) ==
  {i \in ToolHeaders(raw) : JsonOk(ChannelBody(raw, i))}

\* C29 as stated: of several tool-call channels in one response the parser
\* honours the first well-formed one, also when an earlier tool-call channel
\* is malformed, and ignores the rest.
C29_FirstWellFormedHonoured ==
  (parsed_response # None /\ Cardinality(ToolHeaders(raw_text)) >= 2) =>
    LET wf == WellFormedHeaders(raw_text)
    IN IF wf = {} THEN parsed_response[1].tool_call = None
       ELSE parsed_response[1].tool_call =
              Some(ChannelToolCall(raw_text, CHOOSE i \in wf : \A j \in wf : i <= j))

\* C30: for every text that is a command (trimmed text starts with "/"),
\* "/" alone and "/" followed by whitespace included, execute_command returns
\* a response without raising: the handler's output when the lower-cased
\* command name is in the table, the unknown-command message otherwise.
C30_EveryCommandTextAnswered ==
  \A i \in DOMAIN turns :
    LET t == turns[i]
        words == Split(Tail(Strip(t.item.content)))
        name == IF words = <<>> THEN <<>> ELSE Lower(words[1])
    IN (t.item.type = "user" /\ is_command(t.item.content)
          /\ ~is_exit(t.item.content) /\ ~is_history(t.item.content))
         => /\ t.ret # "raise"
            /\ t.response # None
            /\ (name = <<"help">>) => (t.response[1] = HelpText)
            /\ (name = <<"debug">>) =>
                 (t.response[1] \in {<<"Debug logging ", "enabled", ".">>,
                                     <<"Debug logging ", "disabled", ".">>})
            /\ (name \notin Commands) =>
                 (t.response[1] = <<"Unknown command: /", Join(name),
                                    ". Type /help for available commands.">>)

\* C31: a running_tools entry exists exactly while its task has not ended:
\* it is created at dispatch and removed when the task delivers its result or
\* is cancelled, so running_tools is empty once the shutdown of start() has
\* completed, also for a task cancelled before it first ran.
C31_EveryPendingTaskDestroyed ==
  /\ \A id \in DOMAIN tasks :
       (id \in running_tools) <=> (tasks[id].state \notin {"finished", "cancelled"})
  /\ (pc = "done") => (running_tools = {})

MonitorStopped == monitor \in {"none", "eof", "cancelled"}

\* C32: the shutdown steps are ordered.  A step that cancels a tool task is
\* taken only when the input monitor has stopped; a step that invokes a
\* provider's cleanup is taken only when the monitor has stopped and every
\* tool task has ended, so no provider is torn down while one of its tool
\* executions is still running.
C32_ShutdownStepsOrdered ==
  [][ /\ (\E id \in DOMAIN tasks : tasks'[id].cancel /\ ~tasks[id].cancel)
           => MonitorStopped
      /\ (cleanup_log' # cleanup_log)
           => /\ MonitorStopped
              /\ \A id \in DOMAIN tasks : tasks'[id].state \in {"finished", "cancelled"}
              /\ \A id \in running_tools : tasks'[id].cancel ]_vars

\* C32 witness: a session whose monitor was cancelled, with a tool task
\* cancelled while it was executing on a provider, has run its cleanup.
C32_Witness ==
  /\ pc = "done" /\ InitDone /\ monitor = "cancelled"
  /\ cleanup_log # <<>>
  /\ \E id \in DOMAIN tasks :
       /\ tasks[id].state = "cancelled"
       /\ \E k \in DOMAIN execs : execs[k].id = id

ExitDequeued ==
  \E i \in DOMAIN turns :
    turns[i].item.type = "user" /\ is_exit(turns[i].item.content)

\* C33: after an exit keyword has been dequeued the queue is not drained:
\* no item still on the queue, or put on it later, is processed, so the
\* history, the turns made, the tasks dispatched and the queue's head stay as
\* they are; an item that arrives is only added at the end.
C33_NoTurnAfterExit ==
  [][ExitDequeued =>
       /\ messages' = messages
       /\ turns' = turns
       /\ tool_counter' = tool_counter
       /\ Len(tasks') = Len(tasks)
       /\ Len(input_queue') >= Len(input_queue)
       /\ SubSeq(input_queue', 1, Len(input_queue)) = input_queue]_vars

\* C33 witness: the session ended on an exit keyword with a tool result and a
\* user input, or one of them, left on the queue.
C33_Witness ==
  /\ pc = "done" /\ ExitDequeued
  /\ input_queue # <<>>
  /\ \E k \in DOMAIN input_queue : input_queue[k].type = "tool_result"

CleanupCalls(s) == Cardinality({k \in DOMAIN cleanup_log : cleanup_log[k].server = s})

\* C34: over any run of start(), ended normally or by the failure of a
\* provider during initialization, the cleanup of each registered provider is
\* invoked exactly once: never twice, and once when start() has ended.
C34_CleanupExactlyOnce ==
  \A s \in SeqToSet(Servers) :
    /\ CleanupCalls(s) <= 1
    /\ (pc = "done") => (CleanupCalls(s) = 1)

\* C35: when the user input has reached end-of-file and no tool is running,
\* the session shuts down: as long as start() has not ended there is a next
\* step to take, the consumer is not left waiting on the empty queue with
\* nothing that could ever fill it.
C35_EOFLeadsToShutdown ==
  (monitor = "eof" /\ running_tools = {} /\ pc # "done") => ENABLED Next

\* the text execute_tool returned to a task that ended successfully
ReturnedText(id) == IF tasks[id].outcome = "text" THEN <<"15C">> ELSE <<>>

\* C36: every tool execution that completed successfully has put one
\* ToolResult on the queue whose payload is exactly the text the provider
\* returned, the empty string included, and every turn made for a tool result
\* calls the model.
C36_SuccessAlwaysQueued ==
  /\ \A id \in DOMAIN tasks :
       (tasks[id].state = "finished" /\ tasks[id].outcome \in {"text", "empty_text"})
         => /\ Len(puts[id]) = 1
            /\ puts[id][1].type = "tool_result"
            /\ puts[id][1].tool_id = id
            /\ puts[id][1].result = TextResult(ReturnedText(id))
  /\ \A i \in DOMAIN turns :
       turns[i].item.type = "tool_result" => turns[i].llm_called

====
